---- MODULE Spec2Model ----
(***************************************************************************)
(* Model of the deterministic core of backend/server.py: the wagon         *)
(* allocator (optimize_wagon_loading), the source selector                 *)
(* (optimize_costs, get_optimal_stockyard_selection) and the demurrage     *)
(* endpoints (get_active_demurrage_alerts, get_total_demurrage_cost) over  *)
(* the MongoDB collections they read, and of the handlers that write: the  *)
(* order endpoints, the smart alerts and initialize_sample_data, one step  *)
(* per database write where requests can interleave.                       *)
(*                                                                         *)
(* Documents of a collection are kept in insertion order (the order a      *)
(* find() cursor returns them in); a document's _id is its position.       *)
(* Quantities, capacities and costs are exact numbers: Python floats are   *)
(* modelled by integers and by fractions over a common denominator.        *)
(***************************************************************************)
EXTENDS Integers, Sequences, FiniteSets, TLC

VARIABLES
    wagons,          \* db.wagons: sequence of [capacity, status]
    orders,          \* db.orders: sequence of order documents
    inventory,       \* db.inventory: sequence of [stockyard_id, material_id, quantity]
    stockyards,      \* db.stockyards: sequence of [location]
    loading_points,  \* db.loading_points: sequence of [stockyard_id, current_utilization]
    rakes,           \* db.rakes: sequence of rake documents
    hash_table,      \* hash(location + destination) of this server process
    now,             \* datetime.utcnow(), in units of HoursPerTick hours
    wagon_response,  \* what the last POST /wagon-utilization/optimize returned
    cost_request,    \* order_ids of the last POST /cost-optimization
    cost_response,   \* what that call returned
    cost_evaluations,    \* the candidates that call costed, in the order it did
    selection_request,   \* order_id of the last GET /optimal-stockyard-selection
    selection_response,  \* what that call returned
    alerts_request,      \* utcnow() of the last GET /demurrage/active-alerts
    alerts_response,     \* what that call returned
    total_cost_response, \* what the last GET /demurrage/total-cost returned
    materials,       \* db.materials: sequence of material documents
    smart_alerts,    \* db.smart_alerts: sequence of alert documents
    control_room,    \* sample batches in the control room collections (db.routes, ...)
    peer_response,   \* what POST /wagon-utilization/optimize returned to a second client
    order_response,  \* what the last call of an order endpoint returned
    alert_sends,     \* POST /alerts requests between their insert and their update
    ack_response,    \* what the last PUT /alerts/{alert_id}/acknowledge returned
    seed_calls       \* where each POST /initialize-sample-data request stands

vars == <<wagons, orders, inventory, stockyards, loading_points, rakes, hash_table,
          now, wagon_response, cost_request, cost_response, cost_evaluations,
          selection_request, selection_response, alerts_request, alerts_response,
          total_cost_response, materials, smart_alerts, control_room, peer_response,
          order_response,
          alert_sends, ack_response, seed_calls>>

\* the persisted entities
collections == <<wagons, orders, inventory, stockyards, loading_points, rakes,
                 materials, smart_alerts, control_room>>

\* what the handlers read
dbVars == <<collections, hash_table, now>>

wagonOut == <<wagon_response>>
costOut == <<cost_request, cost_response, cost_evaluations>>
selectionOut == <<selection_request, selection_response>>
demurrageOut == <<alerts_request, alerts_response, total_cost_response>>
raceOut == <<peer_response>>
orderOut == <<order_response>>
alertOut == <<alert_sends, ack_response>>
seedOut == <<seed_calls>>
otherOut == <<raceOut, orderOut, alertOut, seedOut>>

----------------------------------------------------------------------------
(* Bounds of the model *)

MaxWagons == 2      \* wagons in db.wagons
MaxCap == 3         \* largest wagon capacity
MaxOrders == 1      \* orders in db.orders
MaxQty == 3         \* largest order quantity
MaxIds == 1         \* order ids in one request
NumSeeders == 2     \* POST /initialize-sample-data requests in flight
MaxAnalyses == 2    \* cost analyses in one POST /implement-cost-optimization
MaxAlerts == 2      \* alerts in db.smart_alerts

Capacities == 0..MaxCap          \* Wagon.capacity is an unvalidated float
Quantities == (-1)..MaxQty       \* Order.quantity is an unvalidated float
WagonStatuses == {"available", "maintenance"}

HoursPerTick == 6                \* the unit of now and of formation_date

BadId == 0                       \* a string ObjectId() rejects (InvalidId)
OrderIdInputs == 0..(MaxOrders + 1)

NoResponse == [status |-> 0]        \* no call made yet
\* raise HTTPException(status_code=500, detail=str(e))
ErrorResponse(e) == [status |-> 500, detail |-> e]

\* no POST /initialize-sample-data made by a client
NoSeedCall == [pc |-> "idle", material_ids |-> <<>>, stockyard_ids |-> <<>>]

\* no endpoint has been called
NoCalls ==
    /\ wagon_response = NoResponse
    /\ cost_request = <<>>
    /\ cost_response = NoResponse
    /\ cost_evaluations = <<>>
    /\ selection_request = 0
    /\ selection_response = NoResponse
    /\ alerts_request = 0
    /\ alerts_response = NoResponse
    /\ total_cost_response = NoResponse
    /\ peer_response = NoResponse
    /\ order_response = NoResponse
    /\ alert_sends = {}
    /\ ack_response = NoResponse
    /\ seed_calls = [c \in 1..NumSeeders |-> NoSeedCall]

----------------------------------------------------------------------------
(* Helpers *)

RECURSIVE SeqsUpTo(_, _)
SeqsUpTo(S, n) ==
    IF n = 0 THEN {<<>>}
    ELSE LET shorter == SeqsUpTo(S, n - 1)
         IN  shorter \cup {Append(s, x) : s \in {t \in shorter : Len(t) = n - 1}, x \in S}

Min(a, b) == IF a <= b THEN a ELSE b
Max(a, b) == IF a >= b THEN a ELSE b

----------------------------------------------------------------------------
(* Wagon allocator: POST /wagon-utilization/optimize *)

\* ObjectId(order_id) raises InvalidId on a malformed id
HasBadId(order_ids) == \E i \in 1..Len(order_ids) : order_ids[i] = BadId

\* db.orders.find_one({'_id': ObjectId(order_id)}) finds a document or None
OrderExists(order_id) == order_id \in 1..Len(orders)

\* the loop that fetches the orders and accumulates total_quantity
RECURSIVE TotalQuantity(_)
TotalQuantity(order_ids) ==
    IF order_ids = <<>> THEN 0
    ELSE LET rest == TotalQuantity(Tail(order_ids))
         IN  IF OrderExists(Head(order_ids))
             THEN orders[Head(order_ids)].quantity + rest
             ELSE rest

\* (mutant) the query does not filter on the status
RECURSIVE AvailableFrom_AnyStatus(_)
AvailableFrom_AnyStatus(i) ==
    IF i > Len(wagons) THEN <<>>
    ELSE <<[id |-> i, capacity |-> wagons[i].capacity]>> \o AvailableFrom_AnyStatus(i + 1)

\* db.wagons.find({'status': 'available'}), each document with its id
RECURSIVE AvailableFrom(_)
AvailableFrom(i) ==
    IF i > Len(wagons) THEN <<>>
    ELSE IF wagons[i].status = "available"
         THEN <<[id |-> i, capacity |-> wagons[i].capacity]>> \o AvailableFrom(i + 1)
         ELSE AvailableFrom(i + 1)

AvailableWagons == AvailableFrom(1)

\* (mutant) an unstable sort: w goes in front of the wagons of its capacity
RECURSIVE InsertDesc_Unstable(_, _)
InsertDesc_Unstable(sorted, w) ==
    IF sorted = <<>> THEN <<w>>
    ELSE IF Head(sorted).capacity > w.capacity
         THEN <<Head(sorted)>> \o InsertDesc_Unstable(Tail(sorted), w)
         ELSE <<w>> \o sorted

\* place w behind every wagon whose capacity is at least w's capacity
RECURSIVE InsertDesc(_, _)
InsertDesc(sorted, w) ==
    IF sorted = <<>> THEN <<w>>
    ELSE IF Head(sorted).capacity >= w.capacity
         THEN <<Head(sorted)>> \o InsertDesc(Tail(sorted), w)
         ELSE <<w>> \o sorted

\* (mutant) reverse=True forgotten: the pool stays in insertion order
SortDesc_Unsorted(ws) == ws

\* wagons.sort(key=capacity, reverse=True): descending, stable
RECURSIVE SortDesc(_)
SortDesc(ws) ==
    IF ws = <<>> THEN <<>>
    ELSE InsertDesc(SortDesc(SubSeq(ws, 1, Len(ws) - 1)), ws[Len(ws)])

\* (mutant) the whole remainder goes into the wagon, whatever its capacity
LoadQuantity_NoMin(capacity, remaining) == remaining

\* (mutant) the load is spread: every wagon gets one unit
LoadQuantity_UnitLoad(capacity, remaining) == Min(1, Min(capacity, remaining))

\* load_quantity = min(wagon['capacity'], remaining_quantity)
LoadQuantity(capacity, remaining) == Min(capacity, remaining)

\* one allocation entry; utilization = load / capacity * 100 as a fraction
AllocationEntry(w, load) ==
    [wagon_id |-> w.id, capacity |-> w.capacity, allocated_load |-> load,
     utilization |-> [num |-> load * 100, den |-> w.capacity]]

\* (mutant) the remainder is decremented by the wagon's capacity, not its load
RECURSIVE AllocateLoop_SubCapacity(_, _, _)
AllocateLoop_SubCapacity(ws, remaining, allocated) ==
    IF ws = <<>> \/ remaining <= 0
    THEN [error |-> FALSE, allocated |-> allocated, remaining |-> remaining]
    ELSE LET w == Head(ws)
             load == LoadQuantity(w.capacity, remaining)
         IN  IF w.capacity = 0
             THEN [error |-> TRUE, allocated |-> allocated, remaining |-> remaining]
             ELSE AllocateLoop_SubCapacity(Tail(ws), remaining - w.capacity,
                                           Append(allocated, AllocationEntry(w, load)))

\* (mutant) the loop stops on remaining < 0 instead of remaining <= 0
RECURSIVE AllocateLoop_StrictStop(_, _, _)
AllocateLoop_StrictStop(ws, remaining, allocated) ==
    IF ws = <<>> \/ remaining < 0
    THEN [error |-> FALSE, allocated |-> allocated, remaining |-> remaining]
    ELSE LET w == Head(ws)
             load == LoadQuantity(w.capacity, remaining)
         IN  IF w.capacity = 0
             THEN [error |-> TRUE, allocated |-> allocated, remaining |-> remaining]
             ELSE AllocateLoop_StrictStop(Tail(ws), remaining - load,
                                          Append(allocated, AllocationEntry(w, load)))

\* the allocation loop over the sorted wagons; a wagon of capacity 0 that
\* is reached divides by zero
RECURSIVE AllocateLoop(_, _, _)
AllocateLoop(ws, remaining, allocated) ==
    IF ws = <<>> \/ remaining <= 0
    THEN [error |-> FALSE, allocated |-> allocated, remaining |-> remaining]
    ELSE LET w == Head(ws)
             load == LoadQuantity(w.capacity, remaining)
         IN  IF w.capacity = 0
             THEN [error |-> TRUE, allocated |-> allocated, remaining |-> remaining]
             ELSE AllocateLoop(Tail(ws), remaining - load,
                               Append(allocated, AllocationEntry(w, load)))

FracAdd(a, b) == [num |-> a.num * b.den + b.num * a.den, den |-> a.den * b.den]

RECURSIVE SumUtilization(_)
SumUtilization(allocated) ==
    IF allocated = <<>> THEN [num |-> 0, den |-> 1]
    ELSE FracAdd(allocated[1].utilization, SumUtilization(Tail(allocated)))

\* sum(utilization) / total_wagons_used if total_wagons_used > 0 else 0
AvgUtilization(allocated) ==
    IF Len(allocated) > 0
    THEN LET s == SumUtilization(allocated)
         IN  [num |-> s.num, den |-> s.den * Len(allocated)]
    ELSE [num |-> 0, den |-> 1]

\* (mutant) only a wagon loaded to its capacity counts as full
IsFull_Exactly100(entry) == entry.utilization.num >= 100 * entry.utilization.den

\* w['utilization'] >= 95
IsFull(entry) == entry.utilization.num >= 95 * entry.utilization.den

FullWagons(allocated) ==
    Cardinality({i \in 1..Len(allocated) : IsFull(allocated[i])})

WagonLoadingResult(order_ids) ==
    IF HasBadId(order_ids) THEN ErrorResponse("InvalidId")
    ELSE LET total == TotalQuantity(order_ids)
             loop  == AllocateLoop(SortDesc(AvailableWagons), total, <<>>)
             used  == Len(loop.allocated)
             avg   == AvgUtilization(loop.allocated)
             full  == FullWagons(loop.allocated)
         IN  IF loop.error THEN ErrorResponse("ZeroDivisionError")
             ELSE [status |-> 200,
                   total_quantity |-> total,
                   wagons_allocated |-> used,
                   average_utilization |-> avg,
                   full_wagons |-> full,
                   partial_wagons |-> used - full,
                   wagon_allocations |-> loop.allocated,
                   remaining_quantity |-> loop.remaining,
                   optimization_score |-> avg]

\* (mutant) the call commits its plan: the wagons it read are taken
optimize_wagon_loading_Commit(order_ids) ==
    /\ wagon_response' = WagonLoadingResult(order_ids)
    /\ wagons' = [i \in 1..Len(wagons) |->
                      IF wagons[i].status = "available"
                      THEN [wagons[i] EXCEPT !.status = "in_use"]
                      ELSE wagons[i]]
    /\ UNCHANGED <<orders, materials, smart_alerts, control_room, inventory, stockyards,
                   loading_points, rakes, hash_table,
                   now, costOut, selectionOut, demurrageOut, otherOut>>

optimize_wagon_loading(order_ids) ==
    /\ wagon_response' = WagonLoadingResult(order_ids)
    /\ UNCHANGED <<dbVars, costOut, selectionOut, demurrageOut, otherOut>>

----------------------------------------------------------------------------
(* Specification of the wagon allocator: any wagon pool and any orders,   *)
(* then any sequence of allocation requests.                              *)

\* Order.deadline, in days after the time 0: a deadline well ahead
FarDeadline == 10

DefaultOrder(q) ==
    [material_id |-> 1, quantity |-> q, destination |-> 1,
     penalty_per_day |-> 0, deadline |-> FarDeadline, status |-> "pending"]

WagonDocs == [capacity : Capacities, status : WagonStatuses]

InitWagon ==
    /\ wagons \in SeqsUpTo(WagonDocs, MaxWagons)
    /\ orders \in SeqsUpTo({DefaultOrder(q) : q \in Quantities}, MaxOrders)
    /\ inventory = <<>>
    /\ stockyards = <<>>
    /\ loading_points = <<>>
    /\ rakes = <<>>
    /\ materials = <<>>
    /\ smart_alerts = <<>>
    /\ control_room = 0
    /\ hash_table = <<>>
    /\ now = 0
    /\ NoCalls

NextWagon ==
    \E order_ids \in SeqsUpTo(OrderIdInputs, MaxIds) : optimize_wagon_loading(order_ids)

SpecWagon == InitWagon /\ [][NextWagon]_vars

----------------------------------------------------------------------------
(* Source selector: POST /cost-optimization *)

NumStockyards == 2  \* stockyards in db.stockyards
MaxInventory == 2   \* inventory records in db.inventory
MaxLoadingPoints == 1  \* loading points in db.loading_points
MaxBatchOrders == 2 \* orders in db.orders of a batch snapshot

LoadingRate == 25          \* rupees per MT
TransportRateX2 == 11      \* 5.5 rupees per km per wagon, doubled
WagonLoad == 60            \* MT per wagon
DemurrageRate == 2000      \* rupees per day per wagon
KmPerDay == 400
DefaultDaysToDeadline == 7 \* order.get('days_until_deadline', 7)
BaseDistance == 500
HashModulus == 1000
BaselineTenths == 13       \* average_cost = best_cost * 1.3
EfficiencyCap == 95

UtilUnit == 2                    \* current_utilization is counted in halves
Utilizations == {0, 1, 4}        \* 0.0, 0.5 and 2.0: an unvalidated float
DefaultUtilization == [sum |-> 1, n |-> 1]  \* 0.5 when no loading point
HashValues == {0, 400}           \* hash(...) of this process, two outcomes
Materials == {1, 2}

RECURSIVE Factorial(_)
Factorial(n) == IF n <= 1 THEN 1 ELSE n * Factorial(n - 1)

\* every amount of money and every number of days is kept multiplied by
\* Scale, which makes each of them an integer
Scale == 10 * 3 * KmPerDay * UtilUnit * Factorial(MaxLoadingPoints)

RECURSIVE GCD(_, _)
GCD(a, b) == IF b = 0 THEN a ELSE GCD(b, a % b)

\* the fraction n / d (d > 0, n >= 0) in lowest terms
Frac(n, d) == LET g == GCD(n, d) IN [num |-> n \div g, den |-> d \div g]

\* (order['deadline'] - datetime.utcnow()).days, what the order endpoints
\* return as days_until_deadline
DaysUntilDeadline(order) == (order.deadline * 24 - now * HoursPerTick) \div 24

\* loading_cost = order['quantity'] * 25
LoadingCost(q) == q * LoadingRate * Scale

\* distance_km = 500 + (hash(stockyard['location'] + order['destination']) % 1000)
DistanceKm(location, destination) ==
    BaseDistance + (hash_table[<<location, destination>>] % HashModulus)

\* transport_cost = distance_km * 5.5 * order['quantity'] / 60
TransportCost(d, q) == d * TransportRateX2 * q * (Scale \div (2 * WagonLoad))

\* db.loading_points.find({'stockyard_id': inventory['stockyard_id']})
RECURSIVE LoadingPointsAt(_, _)
LoadingPointsAt(stockyard_id, i) ==
    IF i > Len(loading_points) THEN <<>>
    ELSE IF loading_points[i].stockyard_id = stockyard_id
         THEN <<loading_points[i]>> \o LoadingPointsAt(stockyard_id, i + 1)
         ELSE LoadingPointsAt(stockyard_id, i + 1)

RECURSIVE SumCurrentUtilization(_)
SumCurrentUtilization(lps) ==
    IF lps = <<>> THEN 0
    ELSE lps[1].current_utilization + SumCurrentUtilization(Tail(lps))

\* sum(current_utilization) / len(loading_points) if loading_points else 0.5,
\* as the pair (sum in halves, number of loading points)
AvgUtilizationAt(lps) ==
    IF lps # <<>> THEN [sum |-> SumCurrentUtilization(lps), n |-> Len(lps)]
    ELSE DefaultUtilization

\* demurrage_days = max(1, avg_utilization * 3)
DemurrageDays(avg) ==
    Max(avg.n * UtilUnit, 3 * avg.sum) * (Scale \div (avg.n * UtilUnit))

\* demurrage_cost = demurrage_days * 2000 * (order['quantity'] / 60)
DemurrageCost(days, q) == (days \div WagonLoad) * DemurrageRate * q

\* transport_days = distance_km / 400
TransportDays(d) == d * (Scale \div KmPerDay)

\* (mutant) the delay is taken with the wrong sign
PenaltyCost_Reversed(total_days, penalty_per_day) ==
    IF total_days > DefaultDaysToDeadline * Scale
    THEN (DefaultDaysToDeadline * Scale - total_days) * penalty_per_day
    ELSE 0

\* penalty_cost: delay beyond days_to_deadline times penalty_per_day; no
\* stored order has a days_until_deadline field, so the default applies
PenaltyCost(total_days, penalty_per_day) ==
    IF total_days > DefaultDaysToDeadline * Scale
    THEN (total_days - DefaultDaysToDeadline * Scale) * penalty_per_day
    ELSE 0

\* (mutant) the penalty is left out of the total
Breakdown_TotalWithoutPenalty(order, inv) ==
    LET d    == DistanceKm(stockyards[inv.stockyard_id].location, order.destination)
        days == DemurrageDays(AvgUtilizationAt(LoadingPointsAt(inv.stockyard_id, 1)))
        lc   == LoadingCost(order.quantity)
        tc   == TransportCost(d, order.quantity)
        dc   == DemurrageCost(days, order.quantity)
        pc   == PenaltyCost(days + TransportDays(d), order.penalty_per_day)
    IN  [loading_cost |-> lc, transport_cost |-> tc, demurrage_cost |-> dc,
         penalty_cost |-> pc, total_cost |-> lc + tc + dc]

\* the cost breakdown of one candidate inventory record
Breakdown(order, inv) ==
    LET d    == DistanceKm(stockyards[inv.stockyard_id].location, order.destination)
        days == DemurrageDays(AvgUtilizationAt(LoadingPointsAt(inv.stockyard_id, 1)))
        lc   == LoadingCost(order.quantity)
        tc   == TransportCost(d, order.quantity)
        dc   == DemurrageCost(days, order.quantity)
        pc   == PenaltyCost(days + TransportDays(d), order.penalty_per_day)
    IN  [loading_cost |-> lc, transport_cost |-> tc, demurrage_cost |-> dc,
         penalty_cost |-> pc, total_cost |-> lc + tc + dc + pc]

\* (mutant) the quantity condition of the query is missing
Qualifies_AnyQuantity(inv, order) == inv.material_id = order.material_id

\* db.inventory.find({'material_id': ..., 'quantity': {'$gte': order['quantity']}})
Qualifies(inv, order) ==
    /\ inv.material_id = order.material_id
    /\ inv.quantity >= order.quantity

RECURSIVE CandidatesFrom(_, _)
CandidatesFrom(order, i) ==
    IF i > Len(inventory) THEN <<>>
    ELSE IF Qualifies(inventory[i], order)
         THEN <<inventory[i]>> \o CandidatesFrom(order, i + 1)
         ELSE CandidatesFrom(order, i + 1)

\* db.stockyards.find_one({'_id': ObjectId(inventory['stockyard_id'])})
StockyardExists(stockyard_id) == stockyard_id \in 1..Len(stockyards)

\* (mutant) the comparison is reversed: the dearest candidate wins
Improves_Greater(total_cost, best) == ~best.found \/ total_cost > best.best_cost

\* (mutant) <= instead of <: the last of several equal candidates wins
Improves_OrEqual(total_cost, best) == ~best.found \/ total_cost <= best.best_cost

\* if total_cost < best_cost: the candidate replaces the best one so far
Improves(total_cost, best) == ~best.found \/ total_cost < best.best_cost

NoBest == [found |-> FALSE]

\* the loop over the candidate inventories of one order
RECURSIVE SelectLoop(_, _, _)
SelectLoop(order, candidates, best) ==
    IF candidates = <<>> THEN best
    ELSE LET inv == Head(candidates)
         IN  IF ~StockyardExists(inv.stockyard_id)
             THEN SelectLoop(order, Tail(candidates), best)
             ELSE LET b == Breakdown(order, inv)
                  IN  IF Improves(b.total_cost, best)
                      THEN SelectLoop(order, Tail(candidates),
                                      [found |-> TRUE, best_cost |-> b.total_cost,
                                       best_stockyard |-> inv.stockyard_id,
                                       best_breakdown |-> b])
                      ELSE SelectLoop(order, Tail(candidates), best)

BestSource(order) == SelectLoop(order, CandidatesFrom(order, 1), NoBest)

\* the CostAnalysis of an order whose best source was found
Analysis(order_id, best) ==
    LET average_cost == (best.best_cost \div 10) * BaselineTenths
        cost_savings == average_cost - best.best_cost
        ratio        == Frac(cost_savings, average_cost)
    IN  [order_id |-> order_id,
         quantity |-> orders[order_id].quantity,
         destination |-> orders[order_id].destination,
         best_stockyard |-> best.best_stockyard,
         cost_breakdown |-> best.best_breakdown,
         cost_savings |-> cost_savings,
         efficiency_score |->
             IF 100 * ratio.num >= EfficiencyCap * ratio.den
             THEN [num |-> EfficiencyCap, den |-> 1]
             ELSE Frac(100 * ratio.num, ratio.den)]

\* (mutant) an order without a source ends the loop instead of being skipped
RECURSIVE AnalyseOrders_Break(_, _)
AnalyseOrders_Break(order_ids, analyses) ==
    IF order_ids = <<>> THEN [error |-> "", analyses |-> analyses]
    ELSE LET order_id == Head(order_ids)
         IN  IF order_id = BadId
             THEN [error |-> "InvalidId", analyses |-> analyses]
             ELSE IF ~OrderExists(order_id)
             THEN AnalyseOrders_Break(Tail(order_ids), analyses)
             ELSE LET best == BestSource(orders[order_id])
                  IN  IF ~best.found
                      THEN [error |-> "", analyses |-> analyses]
                      ELSE IF best.best_cost = 0
                      THEN [error |-> "ZeroDivisionError", analyses |-> analyses]
                      ELSE AnalyseOrders_Break(Tail(order_ids),
                                               Append(analyses, Analysis(order_id, best)))

\* the loop over request.order_ids; the first exception ends the request
RECURSIVE AnalyseOrders(_, _)
AnalyseOrders(order_ids, analyses) ==
    IF order_ids = <<>> THEN [error |-> "", analyses |-> analyses]
    ELSE LET order_id == Head(order_ids)
         IN  IF order_id = BadId
             THEN [error |-> "InvalidId", analyses |-> analyses]
             ELSE IF ~OrderExists(order_id)
             THEN AnalyseOrders(Tail(order_ids), analyses)
             ELSE LET best == BestSource(orders[order_id])
                  IN  IF ~best.found
                      THEN AnalyseOrders(Tail(order_ids), analyses)
                      ELSE IF best.best_cost = 0
                      THEN [error |-> "ZeroDivisionError", analyses |-> analyses]
                      ELSE AnalyseOrders(Tail(order_ids),
                                         Append(analyses, Analysis(order_id, best)))

RECURSIVE SumSavings(_)
SumSavings(analyses) ==
    IF analyses = <<>> THEN 0 ELSE analyses[1].cost_savings + SumSavings(Tail(analyses))

RECURSIVE SumEfficiency(_)
SumEfficiency(analyses) ==
    IF analyses = <<>> THEN [num |-> 0, den |-> 1]
    ELSE FracAdd(analyses[1].efficiency_score, SumEfficiency(Tail(analyses)))

\* sum(efficiency_score) / len(cost_analyses) if cost_analyses else 0
AverageEfficiency(analyses) ==
    IF analyses # <<>>
    THEN LET s == SumEfficiency(analyses) IN Frac(s.num, s.den * Len(analyses))
    ELSE [num |-> 0, den |-> 1]

\* the local variables of one pass of the loop over inventories: what was
\* costed for which order at which stockyard
Evaluation(order_id, inv) ==
    LET order == orders[order_id]
    IN  [order_id |-> order_id,
         stockyard_id |-> inv.stockyard_id,
         quantity |-> order.quantity,
         penalty_per_day |-> order.penalty_per_day,
         distance_km |-> DistanceKm(stockyards[inv.stockyard_id].location,
                                    order.destination),
         avg_utilization |-> AvgUtilizationAt(LoadingPointsAt(inv.stockyard_id, 1)),
         cost_breakdown |-> Breakdown(order, inv)]

RECURSIVE EvaluateCandidates(_, _)
EvaluateCandidates(order_id, candidates) ==
    IF candidates = <<>> THEN <<>>
    ELSE IF ~StockyardExists(Head(candidates).stockyard_id)
         THEN EvaluateCandidates(order_id, Tail(candidates))
         ELSE <<Evaluation(order_id, Head(candidates))>>
              \o EvaluateCandidates(order_id, Tail(candidates))

\* best_cost once the loop over the costed candidates has ended
RECURSIVE LeastTotal(_)
LeastTotal(evs) ==
    IF Len(evs) = 1 THEN evs[1].cost_breakdown.total_cost
    ELSE Min(evs[1].cost_breakdown.total_cost, LeastTotal(Tail(evs)))

\* every candidate the request costs before it returns or raises (a
\* best_cost of 0 raises ZeroDivisionError)
RECURSIVE Evaluations(_)
Evaluations(order_ids) ==
    IF order_ids = <<>> THEN <<>>
    ELSE LET order_id == Head(order_ids)
         IN  IF order_id = BadId THEN <<>>
             ELSE IF ~OrderExists(order_id) THEN Evaluations(Tail(order_ids))
             ELSE LET order == orders[order_id]
                      evs   == EvaluateCandidates(order_id, CandidatesFrom(order, 1))
                  IN  IF evs # <<>> /\ LeastTotal(evs) = 0 THEN evs
                      ELSE evs \o Evaluations(Tail(order_ids))

CostOptimizationResult(order_ids) ==
    LET run == AnalyseOrders(order_ids, <<>>)
    IN  IF run.error # "" THEN ErrorResponse(run.error)
        ELSE [status |-> 200,
              total_orders |-> Len(run.analyses),
              total_savings |-> SumSavings(run.analyses),
              average_efficiency |-> AverageEfficiency(run.analyses),
              cost_analyses |-> run.analyses]

optimize_costs(order_ids) ==
    /\ cost_request' = order_ids
    /\ cost_response' = CostOptimizationResult(order_ids)
    /\ cost_evaluations' = Evaluations(order_ids)
    /\ UNCHANGED <<dbVars, wagonOut, selectionOut, demurrageOut, otherOut>>

----------------------------------------------------------------------------
(* Specification of source selection: one order, any candidate inventory  *)
(* records over the stockyards, any loading points, any hash.             *)

StockyardDocs == [i \in 1..NumStockyards |-> [location |-> i]]

Destination == 1

HashTables == [(1..NumStockyards) \X {Destination} -> HashValues]

InitSelect ==
    /\ wagons = <<>>
    /\ rakes = <<>>
    /\ materials = <<>>
    /\ smart_alerts = <<>>
    /\ control_room = 0
    /\ now = 0
    /\ stockyards = StockyardDocs
    /\ hash_table \in HashTables
    /\ orders \in {<<[material_id |-> 1, quantity |-> q, destination |-> Destination,
                      penalty_per_day |-> p, deadline |-> FarDeadline,
                      status |-> "pending"]>> :
                        q \in {0, 1}, p \in {1}}
    /\ inventory \in SeqsUpTo([stockyard_id : 1..(NumStockyards + 1),
                               material_id : {1}, quantity : {1}], MaxInventory)
    /\ loading_points \in SeqsUpTo([stockyard_id : 1..NumStockyards,
                                    current_utilization : Utilizations],
                                   MaxLoadingPoints)
    /\ NoCalls

NextSelect == \E order_id \in OrderIdInputs : optimize_costs(<<order_id>>)

SpecSelect == InitSelect /\ [][NextSelect]_vars

----------------------------------------------------------------------------
(* Specification of batches: MaxBatchOrders orders, inventory records of  *)
(* any material and quantity at one stockyard, any batch of their ids.    *)

InitBatch ==
    /\ wagons = <<>>
    /\ rakes = <<>>
    /\ materials = <<>>
    /\ smart_alerts = <<>>
    /\ control_room = 0
    /\ now = 0
    /\ stockyards = StockyardDocs
    /\ hash_table \in {[k \in (1..NumStockyards) \X {Destination} |-> 0]}
    /\ orders \in [1..MaxBatchOrders ->
                        {[material_id |-> 1, quantity |-> q, destination |-> Destination,
                          penalty_per_day |-> 0, deadline |-> FarDeadline,
                          status |-> "pending"] : q \in {1, 2}}]
    /\ inventory \in SeqsUpTo([stockyard_id : {1}, material_id : Materials,
                               quantity : {1, 2}], MaxInventory)
    /\ loading_points = <<>>
    /\ NoCalls

BatchIds == 1..MaxBatchOrders

\* the batches that name no order twice
Batches ==
    {ids \in SeqsUpTo(BatchIds, MaxBatchOrders) :
        \A i, j \in 1..Len(ids) : i # j => ids[i] # ids[j]}

NextBatch == \E order_ids \in Batches : optimize_costs(order_ids)

SpecBatch == InitBatch /\ [][NextBatch]_vars

----------------------------------------------------------------------------
(* GET /stockyard-selection/{order_id} *)

\* db.loading_points.find({'stockyard_id': ObjectId(inventory['stockyard_id'])}):
\* the stored stockyard_id is a string and an ObjectId equals no string
LoadingPointsByObjectId(stockyard_id) == <<>>

\* one entry of stockyard_options
StockyardOption(order, inv) ==
    LET d    == DistanceKm(stockyards[inv.stockyard_id].location, order.destination)
        avg  == AvgUtilizationAt(LoadingPointsByObjectId(inv.stockyard_id))
        lc   == LoadingCost(order.quantity)
        tc   == TransportCost(d, order.quantity)
        dc   == DemurrageCost(DemurrageDays(avg), order.quantity)
    IN  [stockyard_id |-> inv.stockyard_id,
         available_quantity |-> inv.quantity,
         distance_km |-> d,
         loading_cost |-> lc,
         transport_cost |-> tc,
         demurrage_cost |-> dc,
         total_logistics_cost |-> lc + tc + dc,
         loading_point_utilization |-> avg]

RECURSIVE StockyardOptions(_, _)
StockyardOptions(order, candidates) ==
    IF candidates = <<>> THEN <<>>
    ELSE IF StockyardExists(Head(candidates).stockyard_id)
         THEN <<StockyardOption(order, Head(candidates))>>
              \o StockyardOptions(order, Tail(candidates))
         ELSE StockyardOptions(order, Tail(candidates))

\* list.sort(key=total_logistics_cost) is stable: an option goes behind the
\* options that cost the same
RECURSIVE InsertByCost(_, _)
InsertByCost(option, sorted) ==
    IF sorted = <<>> THEN <<option>>
    ELSE IF option.total_logistics_cost < Head(sorted).total_logistics_cost
         THEN <<option>> \o sorted
         ELSE <<Head(sorted)>> \o InsertByCost(option, Tail(sorted))

RECURSIVE SortByCost(_)
SortByCost(options) ==
    IF options = <<>> THEN <<>>
    ELSE InsertByCost(options[Len(options)], SortByCost(SubSeq(options, 1, Len(options) - 1)))

\* recommendation is the first option, or None (the empty sequence here)
StockyardSelectionResult(order_id) ==
    IF order_id = BadId THEN ErrorResponse("InvalidId")
    ELSE IF ~OrderExists(order_id) THEN ErrorResponse("404: Order not found")
    ELSE LET order   == orders[order_id]
             options == SortByCost(StockyardOptions(order, CandidatesFrom(order, 1)))
         IN  [status |-> 200,
              order_id |-> order_id,
              stockyard_options |-> options,
              recommendation |-> SubSeq(options, 1, Min(1, Len(options)))]

get_optimal_stockyard_selection(order_id) ==
    /\ selection_request' = order_id
    /\ selection_response' = StockyardSelectionResult(order_id)
    /\ UNCHANGED <<dbVars, wagonOut, costOut, demurrageOut, otherOut>>

----------------------------------------------------------------------------
(* Specification of the core: two orders that differ in quantity, penalty *)
(* and deadline, stock of their material at every stockyard, a wagon pool, *)
(* and any sequence of calls of the three handlers.                        *)

Deadlines == {2, FarDeadline}    \* Order.deadline, in days after the time 0

CoreOrder(q, p, d) ==
    [material_id |-> 1, quantity |-> q, destination |-> Destination,
     penalty_per_day |-> p, deadline |-> d, status |-> "pending"]

\* the hash tables of a process: the first location hashes to 0
CoreHashTables == {h \in HashTables : h[<<1, Destination>>] = 0}

InitCore ==
    /\ wagons = [i \in 1..MaxWagons |-> [capacity |-> MaxCap, status |-> "available"]]
    /\ rakes = <<>>
    /\ materials = <<>>
    /\ smart_alerts = <<>>
    /\ control_room = 0
    /\ now = 0
    /\ stockyards = StockyardDocs
    /\ hash_table \in CoreHashTables
    /\ orders \in {<<CoreOrder(1, 1, 2), CoreOrder(q, p, d)>> :
                        q \in {1, 2}, p \in {1, 2}, d \in Deadlines}
    /\ inventory = [i \in 1..NumStockyards |->
                        [stockyard_id |-> i, material_id |-> 1, quantity |-> 2]]
    /\ loading_points \in SeqsUpTo([stockyard_id : {1},
                                    current_utilization : Utilizations],
                                   MaxLoadingPoints)
    /\ NoCalls

NextCore ==
    \/ \E order_ids \in SeqsUpTo(1..Len(orders), Len(orders)) : optimize_costs(order_ids)
    \/ \E order_id \in 0..(Len(orders) + 1) : get_optimal_stockyard_selection(order_id)
    \/ optimize_wagon_loading([i \in 1..Len(orders) |-> i])

SpecCore == InitCore /\ [][NextCore]_vars

----------------------------------------------------------------------------
(* Specification of restarts: the database outlives the server process,   *)
(* and hash() of a string is salted anew in every Python process.         *)

restart_server ==
    /\ hash_table' \in CoreHashTables
    /\ UNCHANGED <<collections, now, wagonOut, costOut, selectionOut, demurrageOut, otherOut>>

NextRestart ==
    \/ \E order_ids \in SeqsUpTo(1..Len(orders), Len(orders)) : optimize_costs(order_ids)
    \/ restart_server

SpecRestart == InitCore /\ [][NextRestart]_vars

----------------------------------------------------------------------------
(* Demurrage: GET /demurrage/active-alerts and GET /demurrage/total-cost  *)

MaxRakes == 3       \* rakes in db.rakes
MaxNow == 9         \* the clock stops after MaxNow ticks

CostPerHour == 2000       \* cost_per_hour = 2000
WarningHours == 12
CriticalHours == 24
SevereHours == 48

\* duration_hours = (datetime.utcnow() - formation_time).total_seconds() / 3600
DurationHours(rake, at) == (at - rake.formation_date) * HoursPerTick

\* total_cost = duration_hours * cost_per_hour
DemurrageOf(rake, at) == DurationHours(rake, at) * CostPerHour

\* detect_idle_rakes: estimated_demurrage = idle_duration * 2000 * len(rake['wagon_ids'])
EstimatedDemurrage(rake, at) == DurationHours(rake, at) * CostPerHour * Len(rake.wagon_ids)

\* (mutant) the most severe level falls back to a warning
AlertLevel_Regressing(duration_hours) ==
    IF duration_hours > SevereHours THEN "warning"
    ELSE IF duration_hours > CriticalHours THEN "critical"
    ELSE IF duration_hours > WarningHours THEN "warning"
    ELSE "none"

\* the if/elif chain; "none" stands for `continue`
AlertLevel(duration_hours) ==
    IF duration_hours > SevereHours THEN "severe"
    ELSE IF duration_hours > CriticalHours THEN "critical"
    ELSE IF duration_hours > WarningHours THEN "warning"
    ELSE "none"

\* loading_point['name'] if loading_point else None: a loading point is
\* named by its id, None is 0
LoadingPointName(loading_point_id) ==
    IF loading_point_id \in 1..Len(loading_points) THEN loading_point_id ELSE 0

DemurrageAlert(rake_id, at) ==
    LET rake == rakes[rake_id]
    IN  [rake_id |-> rake_id,
         loading_point_id |-> rake.loading_point_id,
         start_time |-> rake.formation_date,
         current_duration_hours |-> DurationHours(rake, at),
         cost_per_hour |-> CostPerHour,
         total_demurrage_cost |-> DemurrageOf(rake, at),
         alert_level |-> AlertLevel(DurationHours(rake, at)),
         loading_point_name |-> LoadingPointName(rake.loading_point_id)]

\* the loop over the loading rakes; ObjectId(rake['loading_point_id'])
\* raises InvalidId, which ends the request
RECURSIVE AlertsLoop(_, _, _)
AlertsLoop(i, at, alerts) ==
    IF i > Len(rakes) THEN [error |-> "", alerts |-> alerts]
    ELSE IF rakes[i].status # "loading" THEN AlertsLoop(i + 1, at, alerts)
    ELSE IF AlertLevel(DurationHours(rakes[i], at)) = "none"
         THEN AlertsLoop(i + 1, at, alerts)
    ELSE IF rakes[i].loading_point_id = BadId
         THEN [error |-> "InvalidId", alerts |-> alerts]
    ELSE AlertsLoop(i + 1, at, Append(alerts, DemurrageAlert(i, at)))

\* the sort key (severe, critical, total_demurrage_cost), compared as tuples
SeverityRank(alert) ==
    IF alert.alert_level = "severe" THEN 2
    ELSE IF alert.alert_level = "critical" THEN 1 ELSE 0

KeyLess(a, b) ==
    \/ SeverityRank(a) < SeverityRank(b)
    \/ SeverityRank(a) = SeverityRank(b)
           /\ a.total_demurrage_cost < b.total_demurrage_cost

\* sort(..., reverse=True) is stable: an alert goes behind the alerts of
\* the same key
RECURSIVE InsertAlert(_, _)
InsertAlert(alert, sorted) ==
    IF sorted = <<>> THEN <<alert>>
    ELSE IF KeyLess(Head(sorted), alert) THEN <<alert>> \o sorted
         ELSE <<Head(sorted)>> \o InsertAlert(alert, Tail(sorted))

RECURSIVE SortAlerts(_)
SortAlerts(alerts) ==
    IF alerts = <<>> THEN <<>>
    ELSE InsertAlert(alerts[Len(alerts)], SortAlerts(SubSeq(alerts, 1, Len(alerts) - 1)))

ActiveAlertsResult(at) ==
    LET run == AlertsLoop(1, at, <<>>)
    IN  IF run.error # "" THEN ErrorResponse(run.error)
        ELSE [status |-> 200, alerts |-> SortAlerts(run.alerts)]

get_active_demurrage_alerts ==
    /\ alerts_request' = now
    /\ alerts_response' = ActiveAlertsResult(now)
    /\ UNCHANGED <<dbVars, wagonOut, costOut, selectionOut, total_cost_response, otherOut>>

\* (mutant) only the rakes that have an alert are counted
RECURSIVE RakeCosts_AlertedOnly(_, _)
RakeCosts_AlertedOnly(i, at) ==
    IF i > Len(rakes) THEN <<>>
    ELSE IF rakes[i].status # "loading"
            \/ AlertLevel(DurationHours(rakes[i], at)) = "none"
         THEN RakeCosts_AlertedOnly(i + 1, at)
    ELSE <<[rake_id |-> i,
            duration_hours |-> DurationHours(rakes[i], at),
            demurrage_cost |-> DemurrageOf(rakes[i], at)]>>
         \o RakeCosts_AlertedOnly(i + 1, at)

\* rake_costs: one entry for every loading rake
RECURSIVE RakeCosts(_, _)
RakeCosts(i, at) ==
    IF i > Len(rakes) THEN <<>>
    ELSE IF rakes[i].status # "loading" THEN RakeCosts(i + 1, at)
    ELSE <<[rake_id |-> i,
            duration_hours |-> DurationHours(rakes[i], at),
            demurrage_cost |-> DemurrageOf(rakes[i], at)]>>
         \o RakeCosts(i + 1, at)

RECURSIVE SumDemurrage(_)
SumDemurrage(rake_costs) ==
    IF rake_costs = <<>> THEN 0
    ELSE rake_costs[1].demurrage_cost + SumDemurrage(Tail(rake_costs))

\* len(loading_rakes)
RECURSIVE CountLoading(_)
CountLoading(i) ==
    IF i > Len(rakes) THEN 0
    ELSE (IF rakes[i].status = "loading" THEN 1 ELSE 0) + CountLoading(i + 1)

TotalDemurrageResult(at) ==
    LET rake_costs == RakeCosts(1, at)
    IN  [status |-> 200,
         timestamp |-> at,
         total_demurrage_cost |-> SumDemurrage(rake_costs),
         active_loading_rakes |-> CountLoading(1),
         rake_breakdown |-> rake_costs]

get_total_demurrage_cost ==
    /\ total_cost_response' = TotalDemurrageResult(now)
    /\ UNCHANGED <<dbVars, wagonOut, costOut, selectionOut, alerts_request,
                   alerts_response, otherOut>>

\* time passes
Tick ==
    /\ now < MaxNow
    /\ now' = now + 1
    /\ UNCHANGED <<collections, hash_table, wagonOut, costOut, selectionOut,
                   demurrageOut, otherOut>>

----------------------------------------------------------------------------
(* Specification of demurrage: any rakes, formed at the start or two      *)
(* ticks later, then the clock and the two endpoints in any order.        *)

OneWagon == <<1>>
TenWagons == [i \in 1..10 |-> i]

RakeDocs ==
    [status : {"loading"}, formation_date : {0},
     wagon_ids : {OneWagon, TenWagons}, loading_point_id : {1}]
    \cup {[status |-> "loading", formation_date |-> 2,
           wagon_ids |-> TenWagons, loading_point_id |-> 1],
          [status |-> "planned", formation_date |-> 0,
           wagon_ids |-> TenWagons, loading_point_id |-> 1],
          [status |-> "loading", formation_date |-> 0,
           wagon_ids |-> OneWagon, loading_point_id |-> BadId]}

InitDemurrage ==
    /\ wagons = <<>>
    /\ orders = <<>>
    /\ inventory = <<>>
    /\ stockyards = <<[location |-> 1]>>
    /\ loading_points = <<[stockyard_id |-> 1, current_utilization |-> 1]>>
    /\ rakes \in SeqsUpTo(RakeDocs, MaxRakes)
    /\ materials = <<>>
    /\ smart_alerts = <<>>
    /\ control_room = 0
    /\ hash_table = <<>>
    /\ now = 0
    /\ NoCalls

NextDemurrage ==
    \/ Tick
    \/ get_active_demurrage_alerts
    \/ get_total_demurrage_cost

SpecDemurrage == InitDemurrage /\ [][NextDemurrage]_vars

----------------------------------------------------------------------------
(* Specification of the utilization summary: wagons of 10 and 20 tonnes,  *)
(* one order whose quantity lies around the multiples of their capacity.  *)

SummaryCapacities == {10, 20}
SummaryQuantities == {0, 9, 10, 18, 19, 20, 28, 29, 30, 38, 39, 40}

InitSummary ==
    /\ wagons \in SeqsUpTo([capacity : SummaryCapacities, status : {"available"}],
                            MaxWagons)
    /\ orders \in {<<DefaultOrder(q)>> : q \in SummaryQuantities}
    /\ inventory = <<>>
    /\ stockyards = <<>>
    /\ loading_points = <<>>
    /\ rakes = <<>>
    /\ materials = <<>>
    /\ smart_alerts = <<>>
    /\ control_room = 0
    /\ hash_table = <<>>
    /\ now = 0
    /\ NoCalls

SpecSummary == InitSummary /\ [][NextWagon]_vars

----------------------------------------------------------------------------
(* Specification of two planners on one wagon pool: each asks for a plan  *)
(* for its own order; a planner may commit its plan, which is a write of  *)
(* the caller to db.wagons (no handler changes the status of a wagon).    *)

\* POST /wagon-utilization/optimize of the second client
peer_optimize_wagon_loading(order_ids) ==
    /\ peer_response' = WagonLoadingResult(order_ids)
    /\ UNCHANGED <<dbVars, wagonOut, costOut, selectionOut, demurrageOut,
                   orderOut, alertOut, seedOut>>

\* the wagons of a returned plan
PlanOf(response) ==
    IF response.status = 200
    THEN {response.wagon_allocations[k].wagon_id :
              k \in 1..Len(response.wagon_allocations)}
    ELSE {}

\* the caller marks the wagons of its plan in one write: Wagon.status
\* leaves "available"
commit_allocation(response) ==
    /\ response.status = 200
    /\ wagons' = [i \in 1..Len(wagons) |->
                      IF i \in PlanOf(response)
                      THEN [wagons[i] EXCEPT !.status = "in_use"]
                      ELSE wagons[i]]
    /\ UNCHANGED <<orders, inventory, stockyards, loading_points, rakes, materials,
                   smart_alerts, control_room, hash_table, now, wagonOut, costOut,
                   selectionOut, demurrageOut, otherOut>>

RaceWagonDocs == [capacity : 1..MaxCap, status : {"available"}]

InitRace ==
    /\ wagons \in SeqsUpTo(RaceWagonDocs, MaxWagons)
    /\ orders \in {<<DefaultOrder(q1), DefaultOrder(q2)>> : q1, q2 \in 1..MaxQty}
    /\ inventory = <<>>
    /\ stockyards = <<>>
    /\ loading_points = <<>>
    /\ rakes = <<>>
    /\ materials = <<>>
    /\ smart_alerts = <<>>
    /\ control_room = 0
    /\ hash_table = <<>>
    /\ now = 0
    /\ NoCalls

NextRace ==
    \/ optimize_wagon_loading(<<1>>)
    \/ peer_optimize_wagon_loading(<<2>>)
    \/ commit_allocation(wagon_response)
    \/ commit_allocation(peer_response)

SpecRace == InitRace /\ [][NextRace]_vars

----------------------------------------------------------------------------
(* Specification of the order endpoints: orders are created, replaced and *)
(* marked as cost-optimized in any order.                                 *)

OrderStatuses == {"pending", "assigned", "shipped", "delivered"}

\* the body of POST /orders and PUT /orders/{order_id}: Order without id
OrderInputs ==
    [material_id : {1}, quantity : {1}, destination : {Destination},
     penalty_per_day : {0}, deadline : Deadlines, status : OrderStatuses]

\* db.materials.find_one({'_id': ObjectId(material_id)}): its name, or None
MaterialName(material_id) ==
    IF material_id \in 1..Len(materials) THEN material_id ELSE 0

\* OrderResponse(**order_obj)
OrderResult(id, order) ==
    [status |-> 200, id |-> id, order |-> order,
     material_name |-> MaterialName(order.material_id),
     days_until_deadline |-> DaysUntilDeadline(order)]

create_order(order) ==
    /\ Len(orders) < MaxBatchOrders
    /\ orders' = Append(orders, order)
    /\ order_response' = OrderResult(Len(orders) + 1, order)
    /\ UNCHANGED <<wagons, inventory, stockyards, loading_points, rakes, materials,
                   smart_alerts, control_room, hash_table, now, wagonOut, costOut,
                   selectionOut, demurrageOut, raceOut, alertOut, seedOut>>

\* $set of every field of the body: the fields of the body replace the
\* stored ones, the other stored fields stay
SetFields(fields, document) == fields @@ document

update_order(order_id, order) ==
    /\ IF order_id = BadId
       THEN /\ orders' = orders
            /\ order_response' = ErrorResponse("InvalidId")
       ELSE IF OrderExists(order_id)
       THEN /\ orders' = [orders EXCEPT ![order_id] = SetFields(order, @)]
            /\ order_response' = OrderResult(order_id, SetFields(order, orders[order_id]))
       ELSE /\ orders' = orders
            /\ order_response' = ErrorResponse("TypeError")
    /\ UNCHANGED <<wagons, inventory, stockyards, loading_points, rakes, materials,
                   smart_alerts, control_room, hash_table, now, wagonOut, costOut,
                   selectionOut, demurrageOut, raceOut, alertOut, seedOut>>

\* the $set of implement_cost_optimization
OptimizationFields(analysis) ==
    [assigned_stockyard_id |-> analysis.best_stockyard.id,
     cost_optimized |-> TRUE,
     optimization_date |-> now,
     estimated_total_cost |-> analysis.cost_breakdown.total_cost,
     cost_savings |-> analysis.cost_savings]

\* the loop over cost_analyses: every update before an InvalidId is kept
RECURSIVE ImplementLoop(_, _)
ImplementLoop(cost_analyses, docs) ==
    IF cost_analyses = <<>> THEN [error |-> "", orders |-> docs]
    ELSE LET analysis == Head(cost_analyses)
         IN  IF analysis.order_id = BadId THEN [error |-> "InvalidId", orders |-> docs]
             ELSE IF analysis.order_id \in 1..Len(docs)
             THEN ImplementLoop(Tail(cost_analyses),
                      [docs EXCEPT ![analysis.order_id] =
                           SetFields(OptimizationFields(analysis), @)])
             ELSE ImplementLoop(Tail(cost_analyses), docs)

implement_cost_optimization(cost_analyses) ==
    LET run == ImplementLoop(cost_analyses, orders)
    IN  /\ orders' = run.orders
        /\ order_response' =
               IF run.error # "" THEN ErrorResponse(run.error)
               ELSE [status |-> 200,
                     total_orders_optimized |-> Len(cost_analyses),
                     implementation_date |-> now]
        /\ UNCHANGED <<wagons, inventory, stockyards, loading_points, rakes, materials,
                       smart_alerts, control_room, hash_table, now, wagonOut, costOut,
                       selectionOut, demurrageOut, raceOut, alertOut, seedOut>>

\* an entry of cost_analyses as optimize_costs returns it
AnalysisInputs ==
    [order_id : 0..(MaxBatchOrders + 1), best_stockyard : {[id |-> 1]},
     cost_breakdown : {[total_cost |-> 2500000]}, cost_savings : {750000}]

InitOrders ==
    /\ wagons = <<>>
    /\ orders = <<>>
    /\ inventory = <<>>
    /\ stockyards = <<>>
    /\ loading_points = <<>>
    /\ rakes = <<>>
    /\ materials = <<>>
    /\ smart_alerts = <<>>
    /\ control_room = 0
    /\ hash_table = <<>>
    /\ now = 0
    /\ NoCalls

NextOrders ==
    \/ \E order \in OrderInputs : create_order(order)
    \/ \E order_id \in 0..(MaxBatchOrders + 1), order \in OrderInputs :
           update_order(order_id, order)
    \/ \E cost_analyses \in SeqsUpTo(AnalysisInputs, MaxAnalyses) :
           implement_cost_optimization(cost_analyses)

SpecOrders == InitOrders /\ [][NextOrders]_vars

----------------------------------------------------------------------------
(* Specification of the seeding endpoint: clients call                    *)
(* POST /initialize-sample-data; a request is one step per await, so      *)
(* requests of different clients interleave between the awaits.           *)

SampleMaterials ==
    <<[name |-> "Coal", type |-> "Bulk"], [name |-> "Iron Ore", type |-> "Bulk"],
      [name |-> "Steel Coils", type |-> "Finished"],
      [name |-> "Limestone", type |-> "Bulk"]>>

SampleStockyards ==
    <<[location |-> "Plant North"], [location |-> "Plant South"],
      [location |-> "Plant East"]>>

SampleInventory(material_ids, stockyard_ids) ==
    <<[stockyard_id |-> stockyard_ids[1], material_id |-> material_ids[1], quantity |-> 15000],
      [stockyard_id |-> stockyard_ids[1], material_id |-> material_ids[2], quantity |-> 20000],
      [stockyard_id |-> stockyard_ids[2], material_id |-> material_ids[3], quantity |-> 8000],
      [stockyard_id |-> stockyard_ids[3], material_id |-> material_ids[4], quantity |-> 25000]>>

\* datetime.utcnow() + timedelta(days=days), in days after the time 0
DaysAhead(days) == (now * HoursPerTick) \div 24 + days

SampleOrder(material_id, quantity, destination, days, penalty_per_day) ==
    [material_id |-> material_id, quantity |-> quantity, destination |-> destination,
     penalty_per_day |-> penalty_per_day, deadline |-> DaysAhead(days),
     status |-> "pending"]

SampleOrders(material_ids) ==
    <<SampleOrder(material_ids[1], 5000, "Mumbai", 2, 10000),
      SampleOrder(material_ids[3], 3000, "Delhi", 5, 5000),
      SampleOrder(material_ids[2], 8000, "Kolkata", 3, 8000),
      SampleOrder(material_ids[4], 4000, "Chennai", 10, 2000)>>

SampleWagonCount == 50

\* BOXN (60 t) up to wagon 25, BRN (50 t) up to wagon 40, then BCN (55 t)
SampleCapacity(i) == IF i <= 25 THEN 60 ELSE IF i <= 40 THEN 50 ELSE 55

SampleWagons ==
    [i \in 1..SampleWagonCount |-> [capacity |-> SampleCapacity(i), status |-> "available"]]

\* current_utilization 0.3, 0.5 and 0.2, as exact fractions
SampleLoadingPoints(stockyard_ids) ==
    <<[stockyard_id |-> stockyard_ids[1], current_utilization |-> [num |-> 3, den |-> 10]],
      [stockyard_id |-> stockyard_ids[2], current_utilization |-> [num |-> 5, den |-> 10]],
      [stockyard_id |-> stockyard_ids[3], current_utilization |-> [num |-> 2, den |-> 10]]>>

\* insert_many(...).inserted_ids: the positions the documents are stored at
InsertedIds(collection, documents) ==
    [k \in 1..Len(documents) |-> Len(collection) + k]

SeedAt(c, pc) == seed_calls[c].pc = pc

SeedTo(c, pc) == seed_calls' = [seed_calls EXCEPT ![c].pc = pc]

\* existing_materials = count_documents({}); if existing_materials > 0: return
seed_check(c) ==
    /\ seed_calls[c].pc \in {"idle", "initialized", "exists"}
    /\ seed_calls' = [seed_calls EXCEPT ![c] =
                          [NoSeedCall EXCEPT !.pc = IF Len(materials) > 0
                                                    THEN "exists" ELSE "checked"]]
    /\ UNCHANGED <<dbVars, wagonOut, costOut, selectionOut, demurrageOut, raceOut,
                   orderOut, alertOut>>

seed_materials(c) ==
    /\ SeedAt(c, "checked")
    /\ materials' = materials \o SampleMaterials
    /\ seed_calls' = [seed_calls EXCEPT
                          ![c].pc = "materials",
                          ![c].material_ids = InsertedIds(materials, SampleMaterials)]
    /\ UNCHANGED <<wagons, orders, inventory, stockyards, loading_points, rakes,
                   smart_alerts, control_room, hash_table, now, wagonOut, costOut,
                   selectionOut, demurrageOut, raceOut, orderOut, alertOut>>

seed_stockyards(c) ==
    /\ SeedAt(c, "materials")
    /\ stockyards' = stockyards \o SampleStockyards
    /\ seed_calls' = [seed_calls EXCEPT
                          ![c].pc = "stockyards",
                          ![c].stockyard_ids = InsertedIds(stockyards, SampleStockyards)]
    /\ UNCHANGED <<wagons, orders, inventory, loading_points, rakes, materials,
                   smart_alerts, control_room, hash_table, now, wagonOut, costOut,
                   selectionOut, demurrageOut, raceOut, orderOut, alertOut>>

seed_inventory(c) ==
    /\ SeedAt(c, "stockyards")
    /\ inventory' = inventory \o SampleInventory(seed_calls[c].material_ids,
                                                  seed_calls[c].stockyard_ids)
    /\ SeedTo(c, "inventory")
    /\ UNCHANGED <<wagons, orders, stockyards, loading_points, rakes, materials,
                   smart_alerts, control_room, hash_table, now, wagonOut, costOut,
                   selectionOut, demurrageOut, raceOut, orderOut, alertOut>>

seed_orders(c) ==
    /\ SeedAt(c, "inventory")
    /\ orders' = orders \o SampleOrders(seed_calls[c].material_ids)
    /\ SeedTo(c, "orders")
    /\ UNCHANGED <<wagons, inventory, stockyards, loading_points, rakes, materials,
                   smart_alerts, control_room, hash_table, now, wagonOut, costOut,
                   selectionOut, demurrageOut, raceOut, orderOut, alertOut>>

seed_wagons(c) ==
    /\ SeedAt(c, "orders")
    /\ wagons' = wagons \o SampleWagons
    /\ SeedTo(c, "wagons")
    /\ UNCHANGED <<orders, inventory, stockyards, loading_points, rakes, materials,
                   smart_alerts, control_room, hash_table, now, wagonOut, costOut,
                   selectionOut, demurrageOut, raceOut, orderOut, alertOut>>

seed_loading_points(c) ==
    /\ SeedAt(c, "wagons")
    /\ loading_points' = loading_points \o SampleLoadingPoints(seed_calls[c].stockyard_ids)
    /\ SeedTo(c, "loading_points")
    /\ UNCHANGED <<wagons, orders, inventory, stockyards, rakes, materials,
                   smart_alerts, control_room, hash_table, now, wagonOut, costOut,
                   selectionOut, demurrageOut, raceOut, orderOut, alertOut>>

\* the inserts into the control room collections (compatibility_rules,
\* routes, wagon_tracking, capacity_monitoring, multi_destination_rakes,
\* workflow_approvals, erp_sync, performance_metrics), then the return
seed_control_room(c) ==
    /\ SeedAt(c, "loading_points")
    /\ control_room' = control_room + 1
    /\ SeedTo(c, "initialized")
    /\ UNCHANGED <<wagons, orders, inventory, stockyards, loading_points, rakes,
                   materials, smart_alerts, hash_table, now, wagonOut, costOut,
                   selectionOut, demurrageOut, raceOut, orderOut, alertOut>>

InitSeed ==
    /\ wagons = <<>>
    /\ orders = <<>>
    /\ inventory = <<>>
    /\ stockyards = <<>>
    /\ loading_points = <<>>
    /\ rakes = <<>>
    /\ materials \in {<<>>, <<SampleMaterials[1]>>}
    /\ smart_alerts = <<>>
    /\ control_room = 0
    /\ hash_table = <<>>
    /\ now = 0
    /\ NoCalls

NextSeed ==
    \E c \in 1..NumSeeders :
        \/ seed_check(c)
        \/ seed_materials(c)
        \/ seed_stockyards(c)
        \/ seed_inventory(c)
        \/ seed_orders(c)
        \/ seed_wagons(c)
        \/ seed_loading_points(c)
        \/ seed_control_room(c)

SpecSeed == InitSeed /\ [][NextSeed]_vars

----------------------------------------------------------------------------
(* Specification of the smart alerts: POST /alerts is two writes, the     *)
(* insert and the update that marks the alert as sent; other requests run *)
(* between the two.                                                       *)

NoUser == "None"     \* acknowledged_by: Optional[str] = None
NoTime == -1         \* sent_at, acknowledged_at: Optional[datetime] = None
Users == {"operator_001", "operator_002"}

\* alert.dict(exclude={'id'}) of a body that leaves the optional fields out
NewAlert ==
    [status |-> "pending", sent_at |-> NoTime, acknowledged_at |-> NoTime,
     acknowledged_by |-> NoUser]

\* result = await db.smart_alerts.insert_one(alert_dict)
create_smart_alert_insert ==
    /\ Len(smart_alerts) < MaxAlerts
    /\ smart_alerts' = Append(smart_alerts, NewAlert)
    /\ alert_sends' = alert_sends \cup {Len(smart_alerts) + 1}
    /\ UNCHANGED <<wagons, orders, inventory, stockyards, loading_points, rakes,
                   materials, control_room, hash_table, now, wagonOut, costOut,
                   selectionOut, demurrageOut, raceOut, orderOut, ack_response,
                   seedOut>>

\* await db.smart_alerts.update_one({'_id': result.inserted_id},
\*     {'$set': {'sent_at': datetime.utcnow(), 'status': 'sent'}})
create_smart_alert_send(inserted_id) ==
    /\ inserted_id \in alert_sends
    /\ smart_alerts' = [smart_alerts EXCEPT ![inserted_id] =
                            SetFields([sent_at |-> now, status |-> "sent"], @)]
    /\ alert_sends' = alert_sends \ {inserted_id}
    /\ UNCHANGED <<wagons, orders, inventory, stockyards, loading_points, rakes,
                   materials, control_room, hash_table, now, wagonOut, costOut,
                   selectionOut, demurrageOut, raceOut, orderOut, ack_response,
                   seedOut>>

\* the $set of acknowledge_alert
AcknowledgeFields(user_id) ==
    [acknowledged_at |-> now, acknowledged_by |-> user_id, status |-> "acknowledged"]

AlertExists(alert_id) == alert_id \in 1..Len(smart_alerts)

acknowledge_alert(alert_id, user_id) ==
    /\ IF alert_id = BadId
       THEN /\ smart_alerts' = smart_alerts
            /\ ack_response' = ErrorResponse("InvalidId")
       ELSE IF AlertExists(alert_id)
       THEN /\ smart_alerts' = [smart_alerts EXCEPT ![alert_id] =
                                    SetFields(AcknowledgeFields(user_id), @)]
            /\ ack_response' =
                   [status |-> 200, found |-> TRUE, id |-> alert_id,
                    alert |-> SetFields(AcknowledgeFields(user_id),
                                        smart_alerts[alert_id])]
       ELSE /\ smart_alerts' = smart_alerts
            /\ ack_response' = [status |-> 200, found |-> FALSE]
    /\ UNCHANGED <<wagons, orders, inventory, stockyards, loading_points, rakes,
                   materials, control_room, hash_table, now, wagonOut, costOut,
                   selectionOut, demurrageOut, raceOut, orderOut, alert_sends,
                   seedOut>>

InitAlerts ==
    /\ wagons = <<>>
    /\ orders = <<>>
    /\ inventory = <<>>
    /\ stockyards = <<>>
    /\ loading_points = <<>>
    /\ rakes = <<>>
    /\ materials = <<>>
    /\ smart_alerts = <<>>
    /\ control_room = 0
    /\ hash_table = <<>>
    /\ now = 0
    /\ NoCalls

NextAlerts ==
    \/ create_smart_alert_insert
    \/ \E inserted_id \in 1..MaxAlerts : create_smart_alert_send(inserted_id)
    \/ \E alert_id \in 0..(MaxAlerts + 1), user_id \in Users :
           acknowledge_alert(alert_id, user_id)

SpecAlerts == InitAlerts /\ [][NextAlerts]_vars

----------------------------------------------------------------------------
(* Properties of the wagon allocator *)

Returned == wagon_response.status = 200

Allocations == wagon_response.wagon_allocations

RECURSIVE SumLoads(_)
SumLoads(allocs) ==
    IF allocs = <<>> THEN 0 ELSE allocs[1].allocated_load + SumLoads(Tail(allocs))

AvailableIds == {i \in 1..Len(wagons) : wagons[i].status = "available"}

RECURSIVE SumCapacity(_)
SumCapacity(ids) ==
    IF ids = {} THEN 0
    ELSE LET i == CHOOSE j \in ids : TRUE
         IN  wagons[i].capacity + SumCapacity(ids \ {i})

PoolCapacity == SumCapacity(AvailableIds)

\* summed capacity of the k largest available wagons
LargestSum(k) ==
    LET sums == {SumCapacity(ids) : ids \in {t \in SUBSET AvailableIds : Cardinality(t) = k}}
    IN  CHOOSE m \in sums : \A n \in sums : n <= m

\* ceil(q / c) for c > 0
Ceil(q, c) == -((-q) \div c)

\* every available wagon has the same capacity
Homogeneous == \A i, j \in AvailableIds : wagons[i].capacity = wagons[j].capacity

\* C1: whenever the allocator returns a result, the allocated loads plus
\* remaining_quantity add up to total_quantity.
C1_Conservation ==
    Returned =>
        SumLoads(Allocations) + wagon_response.remaining_quantity
            = wagon_response.total_quantity

\* a partial allocation over two wagons at least, the last one not full
C1_Witness ==
    /\ Returned
    /\ Len(Allocations) >= 2
    /\ Allocations[Len(Allocations)].allocated_load
           < Allocations[Len(Allocations)].capacity
    /\ wagon_response.total_quantity = SumLoads(Allocations)

\* C2: every allocated load is at most the wagon's capacity, so that no
\* utilization exceeds 100 percent.
C2_LoadWithinCapacity ==
    Returned =>
        \A i \in 1..Len(Allocations) :
            /\ Allocations[i].allocated_load <= Allocations[i].capacity
            /\ Allocations[i].utilization.num <= 100 * Allocations[i].utilization.den

\* the capacity was the binding term: a full wagon and quantity left over
C2_Witness ==
    /\ Returned
    /\ Len(Allocations) >= 1
    /\ Allocations[1].allocated_load = Allocations[1].capacity
    /\ wagon_response.remaining_quantity > 0

\* C3: every request of well-formed order ids returns normally; for a
\* positive total_quantity the remainder is 0 when the pool's capacity
\* covers it and total_quantity minus the pool's capacity otherwise (an
\* empty pool leaves everything unallocated).
C3_InsufficientCapacityIsAResult ==
    /\ wagon_response.status = 500 => wagon_response.detail = "InvalidId"
    /\ (Returned /\ wagon_response.total_quantity > 0) =>
         IF PoolCapacity >= wagon_response.total_quantity
         THEN wagon_response.remaining_quantity = 0
         ELSE /\ wagon_response.remaining_quantity
                     = wagon_response.total_quantity - PoolCapacity
              /\ AvailableIds = {} => Allocations = <<>>

\* C4 as claimed: on a homogeneous pool of capacity C the allocator uses
\* ceil(Q / C) wagons.
C4_Original ==
    (/\ Returned
     /\ Homogeneous
     /\ AvailableIds # {}
     /\ wagon_response.total_quantity > 0)
    => \A i \in AvailableIds :
           wagons[i].capacity > 0 =>
               wagon_response.wagons_allocated
                   = Ceil(wagon_response.total_quantity, wagons[i].capacity)

\* C4 amended: on a homogeneous pool of n wagons of capacity C > 0 the
\* allocator uses ceil(Q / C) wagons capped at n (and none when Q <= 0).
C4_BinPackingMinimality ==
    (Returned /\ Homogeneous) =>
        \A i \in AvailableIds :
            wagons[i].capacity > 0 =>
                wagon_response.wagons_allocated
                    = Min(Cardinality(AvailableIds),
                          Max(0, Ceil(wagon_response.total_quantity, wagons[i].capacity)))

\* a homogeneous pool of two wagons at least that is too small for Q
C4_Witness ==
    /\ Returned
    /\ Homogeneous
    /\ Cardinality(AvailableIds) >= 2
    /\ wagon_response.wagons_allocated = Cardinality(AvailableIds)
    /\ wagon_response.remaining_quantity > 0

\* C5: a request whose total_quantity is 0 or negative is rejected: no
\* allocation result is returned for it.
C5_NonPositiveQuantityRejected ==
    Returned => wagon_response.total_quantity > 0

\* C6: when total_quantity (> 0) equals the summed capacity of the k
\* largest available wagons, nothing remains and the average utilization
\* is 100.
C6_ExactFit ==
    (/\ Returned
     /\ wagon_response.total_quantity > 0
     /\ \E k \in 1..Cardinality(AvailableIds) :
            wagon_response.total_quantity = LargestSum(k))
    => /\ wagon_response.remaining_quantity = 0
       /\ wagon_response.average_utilization.num
              = 100 * wagon_response.average_utilization.den

\* the larger of two wagons was inserted last and is the one filled exactly
C6_Witness ==
    /\ Returned
    /\ Cardinality(AvailableIds) = 2
    /\ wagons[1].capacity < wagons[2].capacity
    /\ wagon_response.total_quantity = LargestSum(1)
    /\ Len(Allocations) = 1
    /\ Allocations[1].wagon_id = 2
    /\ wagon_response.remaining_quantity = 0

----------------------------------------------------------------------------
(* Properties of the source selector *)

Analysed == cost_response.status = 200

Analyses == cost_response.cost_analyses

\* the inventory records that are evaluated for an order: of its material,
\* holding its quantity at least, at a stockyard that exists
CandidateIds(order) ==
    {i \in 1..Len(inventory) :
        /\ inventory[i].material_id = order.material_id
        /\ inventory[i].quantity >= order.quantity
        /\ inventory[i].stockyard_id \in 1..Len(stockyards)}

TotalCostOf(order, i) == Breakdown(order, inventory[i]).total_cost

\* the candidates of least total cost
CheapestIds(order) ==
    {i \in CandidateIds(order) :
        \A j \in CandidateIds(order) : TotalCostOf(order, i) <= TotalCostOf(order, j)}

FirstOf(ids) == CHOOSE i \in ids : \A j \in ids : i <= j

\* C7: the chosen stockyard's total cost is at most the total cost of every
\* candidate inventory of the order, and the cost breakdown returned is the
\* breakdown of a candidate at the chosen stockyard.
C7_MinimumCost ==
    Analysed =>
        \A k \in 1..Len(Analyses) :
            LET a == Analyses[k]
                order == orders[a.order_id]
            IN  /\ \A i \in CandidateIds(order) :
                       a.cost_breakdown.total_cost <= TotalCostOf(order, i)
                /\ \E i \in CandidateIds(order) :
                       /\ inventory[i].stockyard_id = a.best_stockyard
                       /\ a.cost_breakdown = Breakdown(order, inventory[i])

\* two candidates of different cost, the second in input order is chosen
C7_Witness ==
    /\ Analysed
    /\ Len(Analyses) = 1
    /\ CandidateIds(orders[1]) = {1, 2}
    /\ TotalCostOf(orders[1], 2) < TotalCostOf(orders[1], 1)
    /\ Analyses[1].best_stockyard = inventory[2].stockyard_id
    /\ inventory[1].stockyard_id # inventory[2].stockyard_id

\* C8: among the candidates whose total cost is the minimum, the one that
\* comes first in input order is chosen.
C8_TieBreakFirst ==
    Analysed =>
        \A k \in 1..Len(Analyses) :
            LET order == orders[Analyses[k].order_id]
            IN  Analyses[k].best_stockyard
                    = inventory[FirstOf(CheapestIds(order))].stockyard_id

\* two candidates at different stockyards tie on the minimum cost
C8_Witness ==
    /\ Analysed
    /\ Len(Analyses) = 1
    /\ CheapestIds(orders[1]) = {1, 2}
    /\ inventory[1].stockyard_id # inventory[2].stockyard_id
    /\ Analyses[1].best_stockyard = inventory[1].stockyard_id

\* the orders of a batch, in order, that exist and have a candidate
RECURSIVE FeasibleOf(_)
FeasibleOf(order_ids) ==
    IF order_ids = <<>> THEN <<>>
    ELSE IF /\ Head(order_ids) \in 1..Len(orders)
            /\ CandidateIds(orders[Head(order_ids)]) # {}
         THEN <<Head(order_ids)>> \o FeasibleOf(Tail(order_ids))
         ELSE FeasibleOf(Tail(order_ids))

AnalysedIds == [k \in 1..Len(Analyses) |-> Analyses[k].order_id]

\* C9: a recommended stockyard holds an inventory record of the order's
\* material with at least the order's quantity; an order of the batch for
\* which no inventory record qualifies gets no recommendation.
C9_FeasibilityFilter ==
    Analysed =>
        /\ \A k \in 1..Len(Analyses) :
               LET order == orders[Analyses[k].order_id]
               IN  \E i \in 1..Len(inventory) :
                       /\ inventory[i].stockyard_id = Analyses[k].best_stockyard
                       /\ inventory[i].material_id = order.material_id
                       /\ inventory[i].quantity >= order.quantity
        /\ \A n \in 1..Len(cost_request) :
               LET id == cost_request[n]
               IN  (/\ id \in 1..Len(orders)
                    /\ \A i \in 1..Len(inventory) :
                           \/ inventory[i].material_id # orders[id].material_id
                           \/ inventory[i].quantity < orders[id].quantity)
                   => \A k \in 1..Len(Analyses) : Analyses[k].order_id # id

\* order 2 needs more than the only record of its material holds and the
\* larger record is of another material: order 1 alone is recommended
C9_Witness ==
    /\ Analysed
    /\ Len(orders) = 2
    /\ Len(inventory) = 2
    /\ orders[1].quantity = 1
    /\ orders[2].quantity = 2
    /\ inventory[1].material_id = 1
    /\ inventory[1].quantity = 1
    /\ inventory[2].material_id = 2
    /\ inventory[2].quantity = 2
    /\ cost_request = <<2, 1>>
    /\ AnalysedIds = <<1>>

\* C10: a batch is never aborted by an order without a feasible source:
\* the recommendations are those of the batch's feasible orders, in order,
\* wherever the infeasible orders stand.
C10_PartialFailure ==
    /\ cost_response.status # 500
    /\ Analysed => AnalysedIds = FeasibleOf(cost_request)

\* the infeasible order comes first, the feasible one still gets its
\* recommendation
C10_Witness ==
    /\ Analysed
    /\ Len(cost_request) = 2
    /\ cost_request[1] \in 1..Len(orders)
    /\ cost_request[2] \in 1..Len(orders)
    /\ CandidateIds(orders[cost_request[1]]) = {}
    /\ CandidateIds(orders[cost_request[2]]) # {}
    /\ AnalysedIds = <<cost_request[2]>>

\* the orders of the request that are stored
RequestedOrders == {cost_request[n] : n \in 1..Len(cost_request)} \cap (1..Len(orders))

\* cost_analyses is the only per-order list of a CostOptimizationResult: it
\* has no entry for an order that got no recommendation
FailureEntries == <<>>

\* C11: every order of a batch that has no feasible source is identified by
\* a failure entry of the result, so that the recommendations and the
\* failure entries together are as many as the orders submitted.
C11_FailureEntryPerOrder ==
    Analysed =>
        /\ \A id \in RequestedOrders :
               CandidateIds(orders[id]) = {}
                   => \E k \in 1..Len(FailureEntries) : FailureEntries[k].order_id = id
        /\ Len(Analyses) + Len(FailureEntries) = Len(cost_request)

\* the candidate inventory records of an order whose stockyard does not exist
DanglingIds(order) ==
    {i \in 1..Len(inventory) :
        /\ Qualifies(inventory[i], order)
        /\ ~StockyardExists(inventory[i].stockyard_id)}

\* C12: a request that meets a candidate inventory record of a nonexistent
\* stockyard does not answer with a normal result: it reports the missing
\* reference.
C12_MissingReferenceReported ==
    (\E id \in RequestedOrders :
        orders[id].quantity > 0 /\ DanglingIds(orders[id]) # {})
        => /\ cost_response.status = 500
           /\ cost_response.detail = "MissingReferenceData"

----------------------------------------------------------------------------
(* Properties of the cost model *)

EvaluationIds == 1..Len(cost_evaluations)

TotalDaysOf(e) == DemurrageDays(e.avg_utilization) + TransportDays(e.distance_km)

\* C13: the penalty of a candidate is the number of days by which
\* demurrage_days + transit_days exceeds the days until the order's
\* deadline, times the order's penalty_per_day, and 0 when it does not
\* exceed them.
C13_PenaltyFromDeadline ==
    \A k \in EvaluationIds :
        LET e     == cost_evaluations[k]
            order == orders[e.order_id]
            until == DaysUntilDeadline(order) * Scale
        IN  e.cost_breakdown.penalty_cost
                = IF TotalDaysOf(e) > until
                  THEN (TotalDaysOf(e) - until) * order.penalty_per_day
                  ELSE 0

ProducedBreakdowns ==
    {cost_evaluations[k].cost_breakdown : k \in EvaluationIds}
        \cup (IF Analysed THEN {Analyses[k].cost_breakdown : k \in 1..Len(Analyses)}
              ELSE {})

Selected == selection_response.status = 200

Options == selection_response.stockyard_options

\* C14: for orders of quantity > 0 and penalty_per_day >= 0, every cost
\* breakdown the selector computes or returns has loading, transport,
\* demurrage and penalty cost >= 0 and a total that is their sum; an option
\* of the selection endpoint, which has no penalty, totals its three costs.
C14_BreakdownConsistent ==
    /\ \A b \in ProducedBreakdowns :
           /\ b.loading_cost >= 0
           /\ b.transport_cost >= 0
           /\ b.demurrage_cost >= 0
           /\ b.penalty_cost >= 0
           /\ b.total_cost = b.loading_cost + b.transport_cost
                                + b.demurrage_cost + b.penalty_cost
    /\ Selected =>
           \A k \in 1..Len(Options) :
               /\ Options[k].loading_cost >= 0
               /\ Options[k].transport_cost >= 0
               /\ Options[k].demurrage_cost >= 0
               /\ Options[k].total_logistics_cost
                      = Options[k].loading_cost + Options[k].transport_cost
                            + Options[k].demurrage_cost

\* a costed candidate whose breakdown carries a penalty, a recommendation
\* returned, and options returned by the selection endpoint
C14_Witness ==
    /\ \E k \in EvaluationIds :
           /\ cost_evaluations[k].cost_breakdown.penalty_cost > 0
           /\ cost_evaluations[k].cost_breakdown.demurrage_cost > 0
           /\ cost_evaluations[k].quantity > 0
    /\ Analysed
    /\ Len(Analyses) = 2
    /\ Selected
    /\ Len(Options) >= 2

\* a <= b for utilizations kept as (sum, n)
UtilLeq(a, b) == a.sum * b.n <= b.sum * a.n

\* C15: for quantities >= 0, between two costed candidates: a larger
\* quantity never has a smaller loading cost, nor (at the same distance) a
\* smaller transport cost, nor (at the same utilization) a smaller
\* demurrage cost; at the same quantity a larger distance never has a
\* smaller transport cost and a larger utilization never a smaller
\* demurrage cost; at the same stockyard and deadline a larger
\* penalty_per_day never has a smaller penalty.
C15_Monotone ==
    \A i, j \in EvaluationIds :
        LET e == cost_evaluations[i]
            f == cost_evaluations[j]
            a == e.cost_breakdown
            b == f.cost_breakdown
        IN  /\ e.quantity <= f.quantity => a.loading_cost <= b.loading_cost
            /\ (e.quantity <= f.quantity /\ e.distance_km = f.distance_km)
                   => a.transport_cost <= b.transport_cost
            /\ (e.quantity <= f.quantity /\ e.avg_utilization = f.avg_utilization)
                   => a.demurrage_cost <= b.demurrage_cost
            /\ (e.quantity = f.quantity /\ e.distance_km <= f.distance_km)
                   => a.transport_cost <= b.transport_cost
            /\ (e.quantity = f.quantity
                    /\ UtilLeq(e.avg_utilization, f.avg_utilization))
                   => a.demurrage_cost <= b.demurrage_cost
            /\ (e.stockyard_id = f.stockyard_id
                    /\ e.penalty_per_day <= f.penalty_per_day)
                   => a.penalty_cost <= b.penalty_cost

\* one call costs pairs of candidates that differ in quantity, in
\* distance, in utilization and in penalty_per_day, each with a strictly
\* larger cost
C15_Witness ==
    \E i, j, k, l \in EvaluationIds :
        LET e == cost_evaluations[i]
            f == cost_evaluations[j]
            g == cost_evaluations[k]
            h == cost_evaluations[l]
        IN  /\ e.stockyard_id = f.stockyard_id
            /\ e.quantity < f.quantity
            /\ e.penalty_per_day < f.penalty_per_day
            /\ e.cost_breakdown.loading_cost < f.cost_breakdown.loading_cost
            /\ e.cost_breakdown.penalty_cost < f.cost_breakdown.penalty_cost
            /\ e.order_id = g.order_id
            /\ e.distance_km < g.distance_km
            /\ e.cost_breakdown.transport_cost < g.cost_breakdown.transport_cost
            /\ h.order_id = e.order_id
            /\ ~UtilLeq(e.avg_utilization, h.avg_utilization)
            /\ h.cost_breakdown.demurrage_cost < e.cost_breakdown.demurrage_cost

\* C16: a call of the selector that repeats the request of the call before
\* it, with every collection unchanged in between, returns the same result:
\* the same stockyards and the same cost breakdowns.
C16_Determinism ==
    [][(/\ cost_response.status # 0
        /\ cost_request' = cost_request
        /\ UNCHANGED collections)
          => cost_response' = cost_response]_vars

----------------------------------------------------------------------------
(* Properties of demurrage *)

Alerted == alerts_response.status = 200

Alerts == alerts_response.alerts

LoadingIds == {i \in 1..Len(rakes) : rakes[i].status = "loading"}

\* the hours a rake had been loading when the alerts were asked for
ElapsedAtAlerts(i) == (alerts_request - rakes[i].formation_date) * HoursPerTick

AlertsOf(i) == {k \in 1..Len(Alerts) : Alerts[k].rake_id = i}

\* C17: when the alert list is returned, a loading rake has an alert in it
\* exactly if it has been loading for 12 hours or more; the alert is a
\* warning below 24 hours, critical between 24 and 48 hours and severe
\* above 48 hours.
C17_DwellTimeClassification ==
    Alerted =>
        \A i \in LoadingIds :
            LET h == ElapsedAtAlerts(i)
            IN  /\ (AlertsOf(i) # {}) <=> (h >= 12)
                /\ \A k \in AlertsOf(i) :
                       /\ h < 24 => Alerts[k].alert_level = "warning"
                       /\ (h > 24 /\ h <= 48) => Alerts[k].alert_level = "critical"
                       /\ h > 48 => Alerts[k].alert_level = "severe"

\* C18: the cost an alert carries is elapsed hours times the hourly rate
\* times the number of wagons of the rake, the estimate detect_idle_rakes
\* makes for the same rake.
C18_AccruedCostPerWagon ==
    Alerted =>
        \A k \in 1..Len(Alerts) :
            /\ Alerts[k].total_demurrage_cost
                   = Alerts[k].current_duration_hours * Alerts[k].cost_per_hour
                         * Len(rakes[Alerts[k].rake_id].wagon_ids)
            /\ Alerts[k].total_demurrage_cost
                   = EstimatedDemurrage(rakes[Alerts[k].rake_id], alerts_request)

Totalled == total_cost_response.status = 200

RakeBreakdown == total_cost_response.rake_breakdown

RECURSIVE SumOver(_, _)
SumOver(ids, at) ==
    IF ids = {} THEN 0
    ELSE LET i == CHOOSE x \in ids : TRUE
         IN  (at - rakes[i].formation_date) * HoursPerTick * CostPerHour
                 + SumOver(ids \ {i}, at)

\* C19: total_demurrage_cost is the sum, over every rake in loading status
\* whatever its dwell time and over no other rake, of the cost accrued at
\* the time of the call; a rake of the alert list computed at that time has
\* the same cost in the breakdown as in its alert.
C19_TotalIsSumOverLoading ==
    Totalled =>
        /\ total_cost_response.total_demurrage_cost
               = SumOver(LoadingIds, total_cost_response.timestamp)
        /\ total_cost_response.active_loading_rakes = Cardinality(LoadingIds)
        /\ {RakeBreakdown[k].rake_id : k \in 1..Len(RakeBreakdown)} = LoadingIds
        /\ Len(RakeBreakdown) = Cardinality(LoadingIds)
        /\ (Alerted /\ alerts_request = total_cost_response.timestamp) =>
               \A a \in 1..Len(Alerts) :
                   \E k \in 1..Len(RakeBreakdown) :
                       /\ RakeBreakdown[k].rake_id = Alerts[a].rake_id
                       /\ RakeBreakdown[k].demurrage_cost
                              = Alerts[a].total_demurrage_cost

\* a loading rake below 12 hours with a cost, a loading rake with an alert
\* and a planned rake, totalled at the time of the alert list
C19_Witness ==
    /\ Totalled
    /\ Alerted
    /\ alerts_request = total_cost_response.timestamp
    /\ Len(Alerts) = 1
    /\ Len(rakes) = 3
    /\ Cardinality(LoadingIds) = 2
    /\ \E i \in LoadingIds :
           /\ AlertsOf(i) = {}
           /\ ElapsedAtAlerts(i) > 0
    /\ total_cost_response.total_demurrage_cost > Alerts[1].total_demurrage_cost

----------------------------------------------------------------------------
(* Purity *)

\* C20: no call of optimize_costs, get_optimal_stockyard_selection or
\* optimize_wagon_loading changes a wagon, an order, an inventory record, a
\* stockyard, a loading point or a rake.
C20_Purity == [][UNCHANGED collections]_vars

\* each of the three handlers has answered with a plan
C20_Witness ==
    /\ Analysed
    /\ Len(Analyses) >= 1
    /\ Selected
    /\ selection_response.recommendation # <<>>
    /\ Returned
    /\ Len(Allocations) >= 1

----------------------------------------------------------------------------
(* Further properties of the wagon allocator *)

AllocatedIds == {Allocations[k].wagon_id : k \in 1..Len(Allocations)}

\* C24: the allocations are in non-increasing order of capacity, wagons of
\* equal capacity in the order of the pool, and they are a prefix of the
\* pool in that order: every available wagon left out is smaller than each
\* allocated one, or as large and behind it in the pool.
C24_DescendingStablePrefix ==
    Returned =>
        /\ \A k \in 1..Len(Allocations) :
               /\ Allocations[k].wagon_id \in AvailableIds
               /\ Allocations[k].capacity = wagons[Allocations[k].wagon_id].capacity
        /\ \A i, j \in 1..Len(Allocations) :
               i < j =>
                   \/ Allocations[i].capacity > Allocations[j].capacity
                   \/ /\ Allocations[i].capacity = Allocations[j].capacity
                      /\ Allocations[i].wagon_id < Allocations[j].wagon_id
        /\ \A k \in 1..Len(Allocations) :
               \A v \in AvailableIds \ AllocatedIds :
                   \/ wagons[v].capacity < Allocations[k].capacity
                   \/ /\ wagons[v].capacity = Allocations[k].capacity
                      /\ v > Allocations[k].wagon_id

\* two wagons of one capacity are allocated, in the order of the pool
C24_Witness ==
    /\ Returned
    /\ Len(Allocations) = 2
    /\ Allocations[1].capacity = Allocations[2].capacity
    /\ Allocations[1].wagon_id = 1
    /\ Allocations[2].wagon_id = 2

\* the least common multiple of the capacities of the allocations
RECURSIVE CommonCapacity(_)
CommonCapacity(allocs) ==
    IF allocs = <<>> THEN 1
    ELSE LET rest == CommonCapacity(Tail(allocs))
             c    == Head(allocs).capacity
         IN  (c * rest) \div GCD(c, rest)

\* the sum of load / capacity * 100 over the allocations, times the least
\* common multiple of their capacities
NumeratorSum(allocs) ==
    LET n == Len(allocs)
        d == CommonCapacity(allocs)
        term[k \in 0..n] ==
            IF k = 0 THEN 0
            ELSE term[k - 1] + 100 * allocs[k].allocated_load * (d \div allocs[k].capacity)
    IN  term[n]

\* C25: average_utilization is the mean of load / capacity * 100 over the
\* allocated wagons and 0 when there is none; full_wagons counts the
\* wagons whose utilization is 95 or more; full_wagons + partial_wagons is
\* wagons_allocated.
C25_UtilizationSummary ==
    Returned =>
        LET n   == Len(Allocations)
            avg == wagon_response.average_utilization
        IN  /\ wagon_response.wagons_allocated = n
            /\ n = 0 => avg.num = 0
            /\ n > 0 => avg.num * (n * CommonCapacity(Allocations))
                            = avg.den * NumeratorSum(Allocations)
            /\ wagon_response.full_wagons
                   = Cardinality({k \in 1..n :
                         100 * Allocations[k].allocated_load
                             >= 95 * Allocations[k].capacity})
            /\ wagon_response.full_wagons + wagon_response.partial_wagons = n

\* a wagon loaded to exactly 95 percent counts as full, one at 90 percent
\* would not: 39 tonnes over two wagons of 20
C25_Witness ==
    /\ Returned
    /\ Len(Allocations) = 2
    /\ Allocations[2].capacity = 20
    /\ Allocations[2].allocated_load = 19
    /\ wagon_response.full_wagons = 2
    /\ wagon_response.partial_wagons = 0

\* C27: when every available wagon has a capacity > 0 and the quantity is
\* > 0, every allocated wagon but the last is loaded to its capacity, every
\* allocated load is > 0 and no wagon is allocated twice.
C27_AtMostOnePartial ==
    (/\ Returned
     /\ wagon_response.total_quantity > 0
     /\ \A v \in AvailableIds : wagons[v].capacity > 0) =>
        /\ \A k \in 1..(Len(Allocations) - 1) :
               Allocations[k].allocated_load = Allocations[k].capacity
        /\ \A k \in 1..Len(Allocations) : Allocations[k].allocated_load > 0
        /\ \A i, j \in 1..Len(Allocations) :
               i # j => Allocations[i].wagon_id # Allocations[j].wagon_id

\* a full wagon followed by the one partial wagon
C27_Witness ==
    /\ Returned
    /\ wagon_response.total_quantity > 0
    /\ \A v \in AvailableIds : wagons[v].capacity > 0
    /\ Len(Allocations) = 2
    /\ Allocations[1].allocated_load = Allocations[1].capacity
    /\ Allocations[2].allocated_load > 0
    /\ Allocations[2].allocated_load < Allocations[2].capacity
    /\ Allocations[1].wagon_id # Allocations[2].wagon_id

----------------------------------------------------------------------------
(* Properties of the two selection paths *)

LoadingPointIdsAt(stockyard_id) ==
    {i \in 1..Len(loading_points) : loading_points[i].stockyard_id = stockyard_id}

RECURSIVE SumUtilizationOver(_)
SumUtilizationOver(ids) ==
    IF ids = {} THEN 0
    ELSE LET i == CHOOSE x \in ids : TRUE
         IN  loading_points[i].current_utilization + SumUtilizationOver(ids \ {i})

\* the mean current_utilization of a stockyard's loading points, 0.5
\* without loading points
MeanUtilization(stockyard_id) ==
    LET ids == LoadingPointIdsAt(stockyard_id)
    IN  IF ids = {} THEN [sum |-> 1, n |-> 1]
        ELSE [sum |-> SumUtilizationOver(ids), n |-> Cardinality(ids)]

SameUtilization(a, b) == a.sum * b.n = b.sum * a.n

\* C23: on both selection paths the average utilization of a candidate
\* stockyard is the mean current_utilization of its loading points, 0.5
\* when it has none, and the demurrage charged is that of
\* max(1, avg_utilization * 3) days, at least one day.
C23_UtilizationFallback ==
    /\ \A k \in EvaluationIds :
           LET e == cost_evaluations[k]
           IN  /\ SameUtilization(e.avg_utilization, MeanUtilization(e.stockyard_id))
               /\ DemurrageDays(e.avg_utilization) >= Scale
               /\ e.cost_breakdown.demurrage_cost
                      = DemurrageCost(DemurrageDays(MeanUtilization(e.stockyard_id)),
                                      e.quantity)
    /\ Selected =>
           \A k \in 1..Len(Options) :
               LET o == Options[k]
               IN  /\ SameUtilization(o.loading_point_utilization,
                                      MeanUtilization(o.stockyard_id))
                   /\ o.demurrage_cost
                          = DemurrageCost(DemurrageDays(MeanUtilization(o.stockyard_id)),
                                          orders[selection_response.order_id].quantity)

\* C29: when no costed candidate of the order carries a penalty, the
\* recommendation of get_optimal_stockyard_selection is the best_stockyard
\* of optimize_costs for that order, with the same loading, transport and
\* demurrage cost.
C29_SelectionPathsAgree ==
    (Analysed /\ Selected) =>
        \A k \in 1..Len(Analyses) :
            (/\ Analyses[k].order_id = selection_response.order_id
             /\ \A e \in EvaluationIds :
                    cost_evaluations[e].order_id = Analyses[k].order_id
                        => cost_evaluations[e].cost_breakdown.penalty_cost = 0)
            => /\ selection_response.recommendation # <<>>
               /\ LET r == selection_response.recommendation[1]
                      b == Analyses[k].cost_breakdown
                  IN  /\ r.stockyard_id = Analyses[k].best_stockyard
                      /\ r.loading_cost = b.loading_cost
                      /\ r.transport_cost = b.transport_cost
                      /\ r.demurrage_cost = b.demurrage_cost

----------------------------------------------------------------------------
(* Further properties of demurrage *)

\* the position of a rake's level on none, warning, critical, severe in an
\* alert list
LevelRankIn(response, i) ==
    LET ks == {k \in 1..Len(response.alerts) : response.alerts[k].rake_id = i}
    IN  IF ks = {} THEN 0
        ELSE 1 + SeverityRank(response.alerts[CHOOSE k \in ks : TRUE])

\* the accrued cost of a rake in an alert list, none without an alert
CostIn(response, i) ==
    LET ks == {k \in 1..Len(response.alerts) : response.alerts[k].rake_id = i}
    IN  IF ks = {} THEN 0
        ELSE response.alerts[CHOOSE k \in ks : TRUE].total_demurrage_cost

\* C28: from one returned alert list to the next, the level of a loading
\* rake never moves back on none, warning, critical, severe and its
\* accrued cost never decreases; when the second list is asked for at most
\* one clock step after the first, the level advances by at most one; the
\* cost that get_total_demurrage_cost reports for a rake never decreases
\* from one answer to the next.
C28_SeverityNeverRegresses ==
    [][/\ (alerts_response.status = 200 /\ alerts_response'.status = 200) =>
              \A i \in LoadingIds :
                  /\ LevelRankIn(alerts_response', i) >= LevelRankIn(alerts_response, i)
                  /\ CostIn(alerts_response', i) >= CostIn(alerts_response, i)
                  /\ alerts_request' <= alerts_request + 1
                         => LevelRankIn(alerts_response', i)
                                <= LevelRankIn(alerts_response, i) + 1
       /\ (total_cost_response.status = 200 /\ total_cost_response'.status = 200) =>
              \A k \in 1..Len(total_cost_response.rake_breakdown) :
                  /\ total_cost_response.rake_breakdown[k].rake_id
                         = total_cost_response'.rake_breakdown[k].rake_id
                  /\ total_cost_response.rake_breakdown[k].demurrage_cost
                         <= total_cost_response'.rake_breakdown[k].demurrage_cost
      ]_vars

\* a rake has a severe alert and its cost was asked for earlier, when it
\* was critical, and was smaller
C28_Witness ==
    /\ Alerted
    /\ Totalled
    /\ total_cost_response.timestamp < alerts_request
    /\ \E i \in LoadingIds :
          \E k \in 1..Len(RakeBreakdown) :
              /\ RakeBreakdown[k].rake_id = i
              /\ RakeBreakdown[k].duration_hours > CriticalHours
              /\ RakeBreakdown[k].duration_hours <= SevereHours
              /\ LevelRankIn(alerts_response, i) = 3
              /\ CostIn(alerts_response, i) > RakeBreakdown[k].demurrage_cost

----------------------------------------------------------------------------
(* Properties of two planners on one pool *)

\* every wagon of the plan has left the status available
Committed(response) ==
    \A i \in PlanOf(response) : wagons[i].status # "available"

Untouched(pool) == \A i \in 1..Len(pool) : pool[i].status = "available"

\* C21: two plans made on a pool that no commit has changed share a wagon
\* (the allocator reserves nothing); a plan made when the wagons of the
\* other planner's plan have been committed shares no wagon with it.
C21_CommitSerialises ==
    [][/\ (peer_response' # peer_response /\ Committed(wagon_response))
              => PlanOf(peer_response') \cap PlanOf(wagon_response) = {}
       /\ (wagon_response' # wagon_response /\ Committed(peer_response))
              => PlanOf(wagon_response') \cap PlanOf(peer_response) = {}
       /\ (/\ Untouched(wagons')
           /\ PlanOf(wagon_response') # {}
           /\ PlanOf(peer_response') # {})
              => PlanOf(wagon_response') \cap PlanOf(peer_response') # {}
      ]_vars

\* the first planner's plan is committed and the second planner holds a
\* plan on wagons that are still available
C21_Witness ==
    /\ PlanOf(wagon_response) # {}
    /\ Committed(wagon_response)
    /\ PlanOf(peer_response) # {}
    /\ \A i \in PlanOf(peer_response) : wagons[i].status = "available"
    /\ PlanOf(wagon_response) \cap PlanOf(peer_response) = {}

\* both planners hold the same wagon of a pool that no commit has changed
C21_RaceReached ==
    /\ Untouched(wagons)
    /\ PlanOf(wagon_response) \cap PlanOf(peer_response) # {}

----------------------------------------------------------------------------
(* Properties of the order endpoints *)

\* C22: no call of create_order, update_order or
\* implement_cost_optimization changes the deadline of an order whose
\* status is no longer pending.
C22_DeadlineImmutable ==
    [][\A i \in 1..Len(orders) :
           orders[i].status # "pending" => orders'[i].deadline = orders[i].deadline
      ]_vars

----------------------------------------------------------------------------
(* Properties of the seeding endpoint *)

SeedInFlight(c) == seed_calls[c].pc \notin {"idle", "initialized", "exists"}

\* C30: the sample materials, stockyards, orders and wagons are never
\* inserted more than once, and once a call has returned success and no
\* call is in flight they are there exactly once.
C30_SeededOnce ==
    /\ Len(stockyards) <= Len(SampleStockyards)
    /\ Len(orders) <= Len(SampleOrders(<<1, 2, 3, 4>>))
    /\ Len(wagons) <= SampleWagonCount
    /\ ((\E c \in 1..NumSeeders : seed_calls[c].pc = "initialized")
        /\ (\A c \in 1..NumSeeders : ~SeedInFlight(c)))
           => /\ materials = SampleMaterials
              /\ stockyards = SampleStockyards
              /\ Len(orders) = Len(SampleOrders(<<1, 2, 3, 4>>))
              /\ wagons = SampleWagons

----------------------------------------------------------------------------
(* Properties of the smart alerts *)

\* a step of acknowledge_alert that found its alert
Acknowledging ==
    /\ alert_sends' = alert_sends
    /\ ack_response'.status = 200
    /\ ack_response'.found
    /\ smart_alerts' # smart_alerts

\* C26: acknowledging an existing alert stores the status acknowledged and
\* the acknowledging user; an acknowledged alert never returns to the
\* status sent or pending; acknowledging adds no alert.
C26_AcknowledgedIsFinal ==
    [][/\ Acknowledging =>
              /\ smart_alerts'[ack_response'.id].status = "acknowledged"
              /\ smart_alerts'[ack_response'.id].acknowledged_by \in Users
       /\ \A i \in 1..Len(smart_alerts) :
              smart_alerts[i].status = "acknowledged"
                  => smart_alerts'[i].status \notin {"sent", "pending"}
       /\ alert_sends' = alert_sends => Len(smart_alerts') = Len(smart_alerts)
      ]_vars

====
